---- MODULE Spec2Model ----
(***************************************************************************)
(* goskkserv: an SKK dictionary server.                                    *)
(*                                                                         *)
(*   dict.Dictionary   the in-memory index (Add, Search, entry.add)        *)
(*   skkserv.Server    the accept loop (Listen), the per-connection unit   *)
(*                     (serve), Shutdown and the active connection set     *)
(*                                                                         *)
(* Strings are sequences of one-character strings.  Durations are in       *)
(* milliseconds.                                                           *)
(***************************************************************************)
EXTENDS Integers, Sequences, FiniteSets, TLC

VARIABLES
    table,        \* Dictionary.table: [made, entries], made = FALSE for the nil map
    addCalls,     \* history: the (key, text, annotation) of every entry.add call
    addErr,       \* result of the last Dictionary.Add ("none" before the first)
    nAdds,        \* number of Dictionary.Add calls made
    mu,           \* Dictionary.mu: "free", or "w" while Add holds the write lock
    apc,          \* position of the running Add: "idle", "open", "loop"
    afile,        \* the file of the running Add
    arest,        \* the bytes the running Add has not read yet
    areads,       \* the ReadString calls the running Add has made
    snaps,        \* history: the table at construction and at every return of Add
    srpc,         \* position of the running Search: "idle", "rlock"
    srKey,        \* the key of the last Search call
    srFrom,       \* history: Len(snaps) when the last Search was called
    srOver,       \* history: an Add was running when the last Search was called
    srRes,        \* what the last Search returned
    listener,     \* Server.listener: Nil or "l"
    lsock,        \* the listening socket: "none", "open", "closed"
    exitSet,      \* Server.exit has been assigned
    ctxDone,      \* Done() of Listen's context is closed
    activeConn,   \* Server.activeConn: a set of *net.Conn pointers
    wg,           \* Server.wg counter
    tempDelay,    \* Listen's tempDelay, in ms
    lpc,          \* position of the Listen call
    lconn,        \* the connection Listen holds in c (0: none)
    acceptErr,    \* error of the last Accept: "none", "temp", "fatal", "closed"
    listenRet,    \* what Listen returned: "none", "nil", "err"
    slept,        \* history: durations of Listen's time.Sleep calls
    sdpc,         \* position of the running Shutdown call
    sdTodo,       \* keys the range loop of Shutdown has still to produce
    sdKey,        \* the key the range loop of Shutdown is at (<< >>: none)
    sdDone,       \* history: a Shutdown call that found a listener has returned
    sdNil,        \* history: the last Shutdown call found s.listener nil
    sdLost,       \* history: it also found s.exit assigned
    spc,          \* per connection: position of its serve unit
    sock,         \* per connection: the accepted socket, "none", "open", "closed"
    cmd,          \* per connection: the request last read, string(buf[:n])
    ret,          \* per connection: the reply accumulator
    rerr,         \* per connection: the error of the last Read ("none": it succeeded)
    inMap,        \* the threads inside an access to activeConn
    crashed       \* the Go runtime ended the process with a fatal error

vars == << table, addCalls, addErr, nAdds, mu, apc, afile, arest, areads, snaps,
           srpc, srKey, srFrom, srOver, srRes, listener, lsock, exitSet, ctxDone,
           activeConn, wg, tempDelay, lpc, lconn, acceptErr, listenRet, slept,
           sdpc, sdTodo, sdKey, sdDone, sdNil, sdLost, spc, sock, cmd, ret, rerr, inMap, crashed >>

rwVars == << mu, apc, afile, arest, areads, snaps, srpc, srKey, srFrom, srOver, srRes >>

dictVars == << table, addCalls, addErr, nAdds, rwVars >>

listenVars == << listener, lsock, exitSet, tempDelay, lpc, lconn, acceptErr,
                 listenRet, slept >>

shutVars == << sdpc, sdTodo, sdKey, sdDone, sdNil, sdLost >>

connVars == << spc, sock, cmd, ret, rerr >>

Nil == "nil"

----------------------------------------------------------------------------
(* Bounds *)

\* connections the network offers to Accept
MaxConns == 2
\* Dictionary.Add calls
MaxAdds == 2

----------------------------------------------------------------------------
(* Strings *)

SP == " "
LF == "\n"
TAB == "\t"

\* strings.IndexByte, 1-based; 0 stands for Go's -1
IndexByte(s, c) ==
    IF \E i \in 1..Len(s) : s[i] = c
    THEN CHOOSE i \in 1..Len(s) : s[i] = c /\ \A j \in 1..(i-1) : s[j] # c
    ELSE 0

\* s[from:] with a 1-based first index
From(s, from) == SubSeq(s, from, Len(s))

\* strings.Split(s, sep) for a one-byte separator
RECURSIVE Split(_, _)
Split(s, sep) ==
    LET i == IndexByte(s, sep)
    IN  IF i = 0 THEN << s >>
        ELSE << SubSeq(s, 1, i-1) >> \o Split(From(s, i+1), sep)

HasPrefixAt(s, p, i) ==
    /\ i >= 1
    /\ i + Len(p) - 1 <= Len(s)
    /\ SubSeq(s, i, i + Len(p) - 1) = p

RECURSIVE Concat(_)
Concat(ss) == IF ss = << >> THEN << >> ELSE Head(ss) \o Concat(Tail(ss))

----------------------------------------------------------------------------
(* dict: candidate and entry *)

\* a String that joins text and annotation with ";" alone
StringNoSpace(c) ==
    IF Len(c.annotation) = 0 THEN c.text
    ELSE c.text \o << ";" >> \o c.annotation

\* candidate.String
String(c) ==
    IF Len(c.annotation) = 0 THEN c.text
    ELSE c.text \o << ";", " " >> \o c.annotation

newEntry == [candidates |-> << >>, candSet |-> {}]

\* an add that lets a repeated text take the later annotation
addOverwrite(e, text, annotation) ==
    IF text \in e.candSet
    THEN [e EXCEPT !.candidates =
            [i \in 1..Len(e.candidates) |->
               IF e.candidates[i].text = text
               THEN [text |-> text, annotation |-> annotation]
               ELSE e.candidates[i]]]
    ELSE [candidates |-> Append(e.candidates, [text |-> text, annotation |-> annotation]),
          candSet |-> e.candSet \cup {text}]

\* entry.add
add(e, text, annotation) ==
    IF text \in e.candSet THEN e
    ELSE [candidates |-> Append(e.candidates, [text |-> text, annotation |-> annotation]),
          candSet |-> e.candSet \cup {text}]

\* entry.Candidates: a copy of the slice, nil when it is empty
Candidates(e) == e.candidates

\* the nil map of a Dictionary that was constructed and never loaded
NilTable == [made |-> FALSE, entries |-> << >>]

\* Dictionary.Search
Search(t, key) ==
    IF ~t.made THEN << >>
    ELSE IF key \notin DOMAIN t.entries THEN << >>
    ELSE Candidates(t.entries[key])

----------------------------------------------------------------------------
(* dict: Dictionary.Add *)

\* The regular expression of magicCommentRegex,
\*     -\*-.*[ \t]coding:[ \t]*([^ \t;]+?)[ \t;].*-\*-
\* matched against the first line.  q is the index of the [ \t] before "coding:".
Marker == << "-", "*", "-" >>
Coding == << "c", "o", "d", "i", "n", "g", ":" >>

IsBlank(c) == c \in {SP, TAB}

IsStop(c) == c \in {SP, TAB, ";"}

\* first index >= i of s that is not a blank (Len(s)+1 when there is none)
SkipBlanks(s, i) ==
    IF \E j \in i..Len(s) : ~IsBlank(s[j])
    THEN CHOOSE j \in i..Len(s) : ~IsBlank(s[j]) /\ \A m \in i..(j-1) : IsBlank(s[m])
    ELSE Len(s) + 1

\* first index >= i of s that is a blank or ";" (0 when there is none)
NextStop(s, i) ==
    IF \E j \in i..Len(s) : IsStop(s[j])
    THEN CHOOSE j \in i..Len(s) : IsStop(s[j]) /\ \A m \in i..(j-1) : ~IsStop(s[m])
    ELSE 0

\* the regexp matches with its "[ \t]coding:" at q
MatchAt(s, q) ==
    /\ q \in 1..Len(s)
    /\ IsBlank(s[q])
    /\ HasPrefixAt(s, Coding, q + 1)
    /\ \E p \in 1..(q - Len(Marker)) : HasPrefixAt(s, Marker, p)
    /\ LET b == SkipBlanks(s, q + 1 + Len(Coding))
           e == NextStop(s, b)
       IN  /\ e > b
           /\ LF \notin {s[m] : m \in q..e}
           /\ \E u \in (e+1)..Len(s) :
                 /\ HasPrefixAt(s, Marker, u)
                 /\ LF \notin {s[m] : m \in e..u}

\* magicCommentRegex.FindStringSubmatch(first)[1], or << >> without a match: the
\* first ".*" is greedy, so the last "[ \t]coding:" that lets the rest match wins
FindStringSubmatch(s) ==
    IF \E q \in 1..Len(s) : MatchAt(s, q)
    THEN LET q == CHOOSE q \in 1..Len(s) :
                     MatchAt(s, q) /\ \A r \in (q+1)..Len(s) : ~MatchAt(s, r)
             b == SkipBlanks(s, q + 1 + Len(Coding))
         IN  SubSeq(s, b, NextStop(s, b) - 1)
    ELSE << >>

EucJp == << "e", "u", "c", "-", "j", "p" >>
EucJis2004 == << "e", "u", "c", "-", "j", "i", "s", "-", "2", "0", "0", "4" >>
Sjis == << "s", "j", "i", "s" >>
Utf8 == << "u", "t", "f", "-", "8" >>

\* a variant of wrapEncDecoder that decodes an unknown encoding as EUC-JP
wrapEncDecoderLenient(enc) ==
    IF enc = Sjis THEN "ShiftJIS"
    ELSE IF enc = Utf8 THEN "UTF8"
    ELSE "EUCJP"

\* wrapEncDecoder: Nil for an unsupported encoding, else the decoder's name
wrapEncDecoder(enc) ==
    IF enc \in {EucJp, EucJis2004} THEN "EUCJP"
    ELSE IF enc = Sjis THEN "ShiftJIS"
    ELSE IF enc = Utf8 THEN "UTF8"
    ELSE Nil

\* a variant of ReadString that returns unterminated last bytes as a line
ReadStringKeepTail(data) ==
    LET i == IndexByte(data, LF)
    IN  IF i = 0
        THEN IF data = << >> THEN [line |-> data, err |-> "EOF", rest |-> << >>]
             ELSE [line |-> data \o << LF >>, err |-> "none", rest |-> << >>]
        ELSE [line |-> SubSeq(data, 1, i), err |-> "none", rest |-> From(data, i + 1)]

\* bufio.Reader.ReadString('\n') on the unread bytes
ReadString(data) ==
    LET i == IndexByte(data, LF)
    IN  IF i = 0 THEN [line |-> data, err |-> "EOF", rest |-> << >>]
        ELSE [line |-> SubSeq(data, 1, i), err |-> "none", rest |-> From(data, i + 1)]

\* lines 84-93: one segment of the candidate list
addCandidate(st, key, candidate) ==
    IF candidate = << >> THEN st
    ELSE LET ai == IndexByte(candidate, ";")
             text == IF ai = 0 THEN candidate ELSE SubSeq(candidate, 1, ai - 1)
             annotation == IF ai = 0 THEN << >> ELSE From(candidate, ai + 1)
         IN  [table |-> [st.table EXCEPT !.entries[key] = add(@, text, annotation)],
              calls |-> Append(st.calls,
                          [key |-> key, text |-> text, annotation |-> annotation])]

RECURSIVE addCandidates(_, _, _)
addCandidates(st, key, candidates) ==
    IF candidates = << >> THEN st
    ELSE addCandidates(addCandidate(st, key, Head(candidates)), key, Tail(candidates))

\* lines 62-94: one line read by the loop
addLine(st, line) ==
    IF line[1] = ";" THEN st
    ELSE LET i == IndexByte(line, SP)
         IN  IF i = 0 THEN st
             ELSE LET key == SubSeq(line, 1, i - 1)
                      candidates == Split(SubSeq(line, i + 1, Len(line) - 1), "/")
                      t1 == IF key \in DOMAIN st.table.entries THEN st.table
                            ELSE [st.table EXCEPT !.entries =
                                    [k \in DOMAIN st.table.entries \cup {key} |->
                                       IF k = key THEN newEntry ELSE st.table.entries[k]]]
                  IN  addCandidates([table |-> t1, calls |-> st.calls], key, candidates)

\* lines 54-95: the read loop; reads counts the ReadString calls made on the file
RECURSIVE addLoop(_, _, _, _)
addLoop(st, data, reads, ioErr) ==
    IF ioErr = reads + 1
    THEN [table |-> st.table, calls |-> st.calls, err |-> "read"]
    ELSE LET r == ReadString(data)
         IN  IF r.err = "EOF"
             THEN [table |-> st.table, calls |-> st.calls, err |-> Nil]
             ELSE addLoop(addLine(st, r.line), r.rest, reads + 1, ioErr)

\* a variant of Add that hands a first line without magic comment to the loop
AddIndexingFirstLine(t, calls, file) ==
    LET t0 == IF ~t.made THEN [made |-> TRUE, entries |-> << >>] ELSE t
    IN  IF ~file.exists THEN [table |-> t0, calls |-> calls, err |-> "open"]
        ELSE IF file.ioErr = 1 THEN [table |-> t0, calls |-> calls, err |-> "read"]
        ELSE LET first == ReadString(file.data)
             IN  IF first.err # "none"
                 THEN [table |-> t0, calls |-> calls, err |-> "read"]
                 ELSE LET m == FindStringSubmatch(first.line)
                          enc == IF Len(m) = 0 THEN EucJp ELSE m
                      IN  IF wrapEncDecoder(enc) = Nil
                          THEN [table |-> t0, calls |-> calls, err |-> "unsupported"]
                          ELSE addLoop(IF Len(m) = 0
                                       THEN addLine([table |-> t0, calls |-> calls],
                                                    first.line)
                                       ELSE [table |-> t0, calls |-> calls],
                                       first.rest, 1, file.ioErr)

\* Dictionary.Add on the table t.  A file is [exists, data, ioErr]: ioErr = n > 0
\* makes the n-th ReadString on it fail with an error other than EOF.
Add(t, calls, file) ==
    LET t0 == IF ~t.made THEN [made |-> TRUE, entries |-> << >>] ELSE t
    IN  IF ~file.exists THEN [table |-> t0, calls |-> calls, err |-> "open"]
        ELSE IF file.ioErr = 1 THEN [table |-> t0, calls |-> calls, err |-> "read"]
        ELSE LET first == ReadString(file.data)
             IN  IF first.err # "none"
                 THEN [table |-> t0, calls |-> calls, err |-> "read"]
                 ELSE LET m == FindStringSubmatch(first.line)
                          enc == IF Len(m) = 0 THEN EucJp ELSE m
                      IN  IF wrapEncDecoder(enc) = Nil
                          THEN [table |-> t0, calls |-> calls, err |-> "unsupported"]
                          ELSE addLoop([table |-> t0, calls |-> calls],
                                       first.rest, 1, file.ioErr)

\* a read lock that is granted whatever the state of the mutex
rlockAlways(m) == TRUE

\* line 117: d.mu.RLock() is granted when no writer holds d.mu
rlockFree(m) == m # "w"

\* Dictionary files.  They are ASCII, on which the EUC-JP, Shift-JIS and UTF-8
\* decoders of the transcoding layer are all the identity.
MagicUtf8 == << ";", ";", SP, "-", "*", "-", SP, "c", "o", "d", "i", "n", "g", ":", SP, "u", "t", "f", "-", "8", SP, "-", "*", "-", LF >>
MagicLatin == << ";", ";", SP, "-", "*", "-", SP, "c", "o", "d", "i", "n", "g", ":", SP, "l", "a", "t", "i", "n", "-", "1", SP, "-", "*", "-", LF >>
Plain == << ";", ";", SP, "d", LF >>
LineKab == << "k", SP, "a", ";", "x", "/", "b", "/", LF >>
LineKbac == << "k", SP, "b", ";", "y", "/", "a", ";", "y", "/", "c", "/", LF >>
LineJaa == << "j", SP, "a", "/", "a", ";", "x", "/", LF >>
LineComment == << ";", SP, "k", SP, "c", "/", LF >>
LineNoSpace == << "k", "b", "/", LF >>
LineEmpty == << "k", SP, "/", LF >>
LineOdd == << "j", SP, ";", "x", "/", "a", ";", "/", LF >>
LineKc == << "k", SP, "c", "/", LF >>
TailKc == << "k", SP, "c", "/" >>

File(data) == [exists |-> TRUE, data |-> data, ioErr |-> 0]

\* a path at which there is no file
NoFile == [exists |-> FALSE, data |-> << >>, ioErr |-> 0]

Files ==
    { File(MagicUtf8 \o LineKab),
      File(MagicUtf8 \o LineKbac),
      File(Plain \o LineJaa \o LineKab),
      File(MagicUtf8 \o LineComment \o LineNoSpace \o LineJaa \o TailKc),
      File(LineKc \o LineKbac),
      File(LineKc \o LineKab),
      File(MagicLatin \o LineKab),
      File(TailKc),
      File(<< >>),
      File(MagicUtf8 \o LineEmpty \o LineOdd),
      [exists |-> TRUE, data |-> MagicUtf8 \o LineKab \o LineKbac, ioErr |-> 3],
      NoFile }
----------------------------------------------------------------------------
(* skkserv: the request codes and the reply of one request *)

ClientEnd == "0"
ClientRequest == "1"
ClientVersion == "2"
ClientHost == "3"
ClientCompletion == "4"
ServerFound == "1"
ServerNotFound == "4"

Version == << "g", "o", "s", "k", "k", "s", "e", "r", "v", "-", "1", ".", "0" >>

\* conn.LocalAddr().String()
LocalAddr == << "h", ":", "1" >>

\* lines 155-163: the key of a lookup request
requestKey(c) ==
    LET i0 == IndexByte(c, SP)
        i1 == IF i0 = 0 THEN IndexByte(c, LF) ELSE i0
        i  == IF i1 = 0 THEN Len(c) + 1 ELSE i1
    IN  SubSeq(c, 2, i - 1)

RECURSIVE writeCandidates(_)
\* lines 169-172: "/" and String() of every candidate
writeCandidates(cs) ==
    IF cs = << >> THEN << >>
    ELSE << "/" >> \o String(Head(cs)) \o writeCandidates(Tail(cs))

\* a reply that echoes the key alone on a miss
requestReplyEchoKey(t, c) ==
    LET candidates == Search(t, requestKey(c))
    IN  IF Len(candidates) > 0
        THEN << ServerFound >> \o writeCandidates(candidates) \o << "/", LF >>
        ELSE << ServerNotFound >> \o requestKey(c)

\* lines 166-179: the reply to a lookup request
requestReply(t, c) ==
    LET candidates == Search(t, requestKey(c))
    IN  IF Len(candidates) > 0
        THEN << ServerFound >> \o writeCandidates(candidates) \o << "/", LF >>
        ELSE << ServerNotFound >> \o From(c, 2)

\* a variant of the switch whose default case leaves the loop
dispatchDefaultBreak(t, c) ==
    CASE c[1] = ClientEnd        -> [next |-> "break", ret |-> << >>]
      [] c[1] = ClientRequest    -> [next |-> "write", ret |-> requestReply(t, c)]
      [] c[1] = ClientVersion    -> [next |-> "write", ret |-> Version]
      [] c[1] = ClientHost       -> [next |-> "write", ret |-> LocalAddr]
      [] c[1] = ClientCompletion -> [next |-> "write", ret |-> << ServerFound, "/", "/", LF >>]
      [] OTHER                   -> [next |-> "break", ret |-> << >>]

\* lines 150-193: the switch on cmd[0]; what the loop does next and ret
dispatch(t, c) ==
    CASE c[1] = ClientEnd        -> [next |-> "break", ret |-> << >>]
      [] c[1] = ClientRequest    -> [next |-> "write", ret |-> requestReply(t, c)]
      [] c[1] = ClientVersion    -> [next |-> "write", ret |-> Version]
      [] c[1] = ClientHost       -> [next |-> "write", ret |-> LocalAddr]
      [] c[1] = ClientCompletion -> [next |-> "write", ret |-> << ServerFound, "/", "/", LF >>]
      [] OTHER                   -> [next |-> "continue", ret |-> << >>]

----------------------------------------------------------------------------
(* skkserv: the server's threads *)

Conns == 1..MaxConns

\* &c of the Listen iteration that accepted connection n
PtrC(n) == << "c", n >>

\* &conn, the address of the parameter of serve(ctx, conn) of connection n
PtrConn(n) == << "conn", n >>

\* the threads that touch activeConn
TListen == << "listen", 0 >>
TShutdown == << "shutdown", 0 >>
TServe(c) == << "serve", c >>

\* the outcomes of a map access that ends while another thread is inside one:
\* Go leaves a data race on a map undefined; the runtime may detect it and end
\* the process ("fatal error: concurrent map writes"), or the write is applied
\* or lost
RaceOutcomes(t) ==
    IF inMap \ {t} = {} THEN {"applied"} ELSE {"applied", "lost", "crash"}

\* setActiveConn, lines 206-210, on the map m
setActiveConn(m, conn, set) == IF set THEN m \cup {conn} ELSE m \ {conn}

\* lines 76-83: the next backoff delay
nextDelay(d) ==
    LET d1 == IF d = 0 THEN 5 ELSE d * 2
    IN  IF d1 > 1000 THEN 1000 ELSE d1

(* Listen *)

\* lines 48-50: the context and s.exit
ListenStart ==
    /\ ~crashed
    /\ lpc = "idle"
    /\ lpc' = "bind"
    /\ exitSet' = TRUE
    /\ UNCHANGED << dictVars, listener, lsock, ctxDone, activeConn, wg, tempDelay,
                    lconn, acceptErr, listenRet, slept, shutVars, connVars,
                    inMap, crashed >>

\* lines 52-63: resolve and bind; on failure Listen returns (the deferred cancel runs)
ListenBind ==
    /\ ~crashed
    /\ lpc = "bind"
    /\ \/ /\ lsock' = "open"
          /\ listener' = "l"
          /\ lpc' = "accept"
          /\ UNCHANGED << ctxDone, listenRet >>
       \/ /\ lpc' = "returned"
          /\ listenRet' = "err"
          /\ ctxDone' = TRUE
          /\ UNCHANGED << lsock, listener >>
    /\ UNCHANGED << dictVars, exitSet, activeConn, wg, tempDelay, lconn, acceptErr,
                    slept, shutVars, connVars, inMap, crashed >>

\* line 68, Accept returns a connection; line 88
ListenAccept ==
    /\ ~crashed
    /\ lpc = "accept"
    /\ lsock = "open"
    /\ \E n \in Conns :
          /\ sock[n] = "none"
          /\ \A m \in 1..(n-1) : sock[m] # "none"
          /\ sock' = [sock EXCEPT ![n] = "open"]
          /\ lconn' = n
    /\ tempDelay' = 0
    /\ acceptErr' = "none"
    /\ lpc' = "accepted"
    /\ UNCHANGED << dictVars, listener, lsock, exitSet, ctxDone, activeConn, wg,
                    listenRet, slept, shutVars, spc, cmd, ret, rerr,
                    inMap, crashed >>

\* line 68, Accept returns an error: the listener was closed, or the network
\* reports a temporary or a permanent failure
ListenAcceptError ==
    /\ ~crashed
    /\ lpc = "accept"
    /\ \/ lsock = "closed" /\ acceptErr' = "closed"
       \/ lsock = "open" /\ acceptErr' \in {"temp", "fatal"}
    /\ lpc' = "failed"
    /\ UNCHANGED << dictVars, listener, lsock, exitSet, ctxDone, activeConn, wg,
                    tempDelay, lconn, listenRet, slept, shutVars, connVars,
                    inMap, crashed >>

\* lines 70-84: the select on ctx.Done(), the classification, the delay
ListenOnError ==
    /\ ~crashed
    /\ lpc = "failed"
    /\ IF ctxDone
       THEN lpc' = "wait" /\ UNCHANGED tempDelay
       ELSE IF acceptErr = "temp"
            THEN lpc' = "sleep" /\ tempDelay' = nextDelay(tempDelay)
            ELSE lpc' = "return" /\ UNCHANGED tempDelay
    /\ UNCHANGED << dictVars, listener, lsock, exitSet, ctxDone, activeConn, wg,
                    lconn, acceptErr, listenRet, slept, shutVars, connVars,
                    inMap, crashed >>

\* line 84: time.Sleep(tempDelay) has elapsed; control falls out of the if
ListenSleep ==
    /\ ~crashed
    /\ lpc = "sleep"
    /\ slept' = Append(slept, tempDelay)
    /\ lpc' = "return"
    /\ UNCHANGED << dictVars, listener, lsock, exitSet, ctxDone, activeConn, wg,
                    tempDelay, lconn, acceptErr, listenRet, shutVars, connVars,
                    inMap, crashed >>

\* line 86: return err, with the deferred l.Close() and cancel()
ListenReturnErr ==
    /\ ~crashed
    /\ lpc = "return"
    /\ lpc' = "returned"
    /\ listenRet' = "err"
    /\ lsock' = "closed"
    /\ ctxDone' = TRUE
    /\ UNCHANGED << dictVars, listener, exitSet, activeConn, wg, tempDelay, lconn,
                    acceptErr, slept, shutVars, connVars, inMap, crashed >>

\* line 89: setActiveConn(&c, true) starts its access to the map
ListenEnrol ==
    /\ ~crashed
    /\ lpc = "accepted"
    /\ lpc' = "enrol"
    /\ inMap' = inMap \cup {TListen}
    /\ UNCHANGED << dictVars, listener, lsock, exitSet, ctxDone, activeConn, wg,
                    tempDelay, lconn, acceptErr, listenRet, slept, shutVars,
                    connVars, crashed >>

\* line 89: setActiveConn(&c, true) ends; a range loop of Shutdown that is
\* under way may or may not produce the new key
ListenEnrolled ==
    /\ ~crashed
    /\ lpc = "enrol"
    /\ inMap' = inMap \ {TListen}
    /\ \E o \in RaceOutcomes(TListen) :
          /\ crashed' = (o = "crash")
          /\ activeConn' = IF o = "applied"
                           THEN setActiveConn(activeConn, PtrC(lconn), TRUE)
                           ELSE activeConn
          /\ IF o = "applied" /\ sdpc \in {"range", "delete"}
             THEN sdTodo' \in {sdTodo, sdTodo \cup {PtrC(lconn)}}
             ELSE UNCHANGED sdTodo
    /\ lpc' = "spawn"
    /\ UNCHANGED << dictVars, listener, lsock, exitSet, ctxDone, wg, tempDelay,
                    lconn, acceptErr, listenRet, slept, sdpc, sdKey,
                    sdDone, sdNil, sdLost, connVars >>

\* lines 90-91: wg.Add(1); go s.serve(ctx, c)
ListenSpawn ==
    /\ ~crashed
    /\ lpc = "spawn"
    /\ wg' = wg + 1
    /\ spc' = [spc EXCEPT ![lconn] = "read"]
    /\ lconn' = 0
    /\ lpc' = "accept"
    /\ UNCHANGED << dictVars, listener, lsock, exitSet, ctxDone, activeConn,
                    tempDelay, acceptErr, listenRet, slept, shutVars, sock,
                    cmd, ret, rerr, inMap, crashed >>

\* lines 94-96: wg.Wait() returns, return nil, the deferred l.Close() and cancel()
ListenWait ==
    /\ ~crashed
    /\ lpc = "wait"
    /\ wg = 0
    /\ lpc' = "returned"
    /\ listenRet' = "nil"
    /\ lsock' = "closed"
    /\ ctxDone' = TRUE
    /\ UNCHANGED << dictVars, listener, exitSet, activeConn, wg, tempDelay, lconn,
                    acceptErr, slept, shutVars, connVars, inMap, crashed >>

(* serve *)

\* a variant of Reset that keeps the accumulated bytes
ResetKeep(b) == b

\* line 130: ret.Reset() empties the reply accumulator
Reset(b) == << >>

\* lines 132-193: Read returns the request r, which is dispatched; the reply is
\* appended to the accumulator.  cmd holds the request last read until its
\* reply is written or the socket is closed by serve
ServeRecv(c, r) ==
    /\ ~crashed
    /\ spc[c] = "read"
    /\ sock[c] = "open"
    /\ (r[1] = ClientRequest) => rlockFree(mu)
    /\ cmd' = [cmd EXCEPT ![c] = r]
    /\ rerr' = [rerr EXCEPT ![c] = "none"]
    /\ LET d == dispatch(table, r)
       IN  CASE d.next = "write" ->
                  /\ spc' = [spc EXCEPT ![c] = "write"]
                  /\ ret' = [ret EXCEPT ![c] = @ \o d.ret]
             [] d.next = "break" ->
                  /\ spc' = [spc EXCEPT ![c] = "close"]
                  /\ UNCHANGED ret
             [] OTHER ->
                  UNCHANGED << spc, ret >>
    /\ UNCHANGED << dictVars, listenVars, ctxDone, activeConn, wg, shutVars, sock,
                    inMap, crashed >>

\* the requests clients send in the server specification
Requests ==
    { << "0" >>,
      << "1", "k", SP >>,
      << "9" >> }

ServeRead(c) == \E r \in Requests : ServeRecv(c, r)

\* a variant of the read error handling that tests Temporary() first
onReadErrorTemporaryFirst(done, temporary, eof) ==
    IF temporary THEN "continue"
    ELSE IF done THEN "break"
    ELSE IF eof THEN "break"
    ELSE "return"

\* lines 133-148: what the loop does with a read error: "break" and "return"
\* both leave the loop for the deferred calls
onReadError(done, temporary, eof) ==
    IF done THEN "break"
    ELSE IF temporary THEN "continue"
    ELSE IF eof THEN "break"
    ELSE "return"

\* lines 132-148: Read fails because the socket was closed on this side
ServeReadClosed(c) ==
    /\ ~crashed
    /\ spc[c] = "read"
    /\ sock[c] = "closed"
    /\ rerr' = [rerr EXCEPT ![c] = "closed"]
    /\ cmd' = [cmd EXCEPT ![c] = << >>]
    /\ spc' = [spc EXCEPT ![c] =
                 IF onReadError(ctxDone, FALSE, FALSE) = "continue" THEN "read" ELSE "close"]
    /\ UNCHANGED << dictVars, listenVars, ctxDone, activeConn, wg, shutVars, sock,
                    ret, inMap, crashed >>

\* lines 132-148: Read fails on an open socket with the error e: the client
\* closed its end ("eof"), or the network reports a temporary ("temp") or a
\* permanent ("fatal") failure.  rerr holds the error until the next read
\* succeeds or the socket is closed by serve
ServeReadErr(c, e) ==
    /\ ~crashed
    /\ spc[c] = "read"
    /\ sock[c] = "open"
    /\ rerr' = [rerr EXCEPT ![c] = e]
    /\ cmd' = [cmd EXCEPT ![c] = << >>]
    /\ spc' = [spc EXCEPT ![c] =
                 IF onReadError(ctxDone, e = "temp", e = "eof") = "continue"
                 THEN "read" ELSE "close"]
    /\ UNCHANGED << dictVars, listenVars, ctxDone, activeConn, wg, shutVars, sock,
                    ret, inMap, crashed >>

ServeReadError(c) == \E e \in {"eof", "temp", "fatal"} : ServeReadErr(c, e)

\* lines 194-197, then lines 129-130: the reply is written in one call and the
\* loop starts over with ret.Reset()
ServeWrite(c) ==
    /\ ~crashed
    /\ spc[c] = "write"
    /\ sock[c] = "open"
    /\ spc' = [spc EXCEPT ![c] = "read"]
    /\ cmd' = [cmd EXCEPT ![c] = << >>]
    /\ ret' = [ret EXCEPT ![c] = Reset(@)]
    /\ UNCHANGED << dictVars, listenVars, ctxDone, activeConn, wg, shutVars, sock,
                    rerr, inMap, crashed >>

\* lines 194-197: the write fails (the socket was closed on this side, or the
\* client is gone) and serve returns; its buffers are dropped
ServeWriteError(c) ==
    /\ ~crashed
    /\ spc[c] = "write"
    /\ spc' = [spc EXCEPT ![c] = "close"]
    /\ cmd' = [cmd EXCEPT ![c] = << >>]
    /\ ret' = [ret EXCEPT ![c] = << >>]
    /\ UNCHANGED << dictVars, listenVars, ctxDone, activeConn, wg, shutVars, sock,
                    rerr, inMap, crashed >>

\* line 115: the deferred conn.Close()
ServeClose(c) ==
    /\ ~crashed
    /\ spc[c] = "close"
    /\ sock' = [sock EXCEPT ![c] = "closed"]
    /\ spc' = [spc EXCEPT ![c] = "unset"]
    /\ cmd' = [cmd EXCEPT ![c] = << >>]
    /\ rerr' = [rerr EXCEPT ![c] = "none"]
    /\ UNCHANGED << dictVars, listenVars, ctxDone, activeConn, wg, shutVars,
                    ret, inMap, crashed >>

\* line 114: the deferred setActiveConn(&conn, false) starts its access to the map
ServeUnset(c) ==
    /\ ~crashed
    /\ spc[c] = "unset"
    /\ spc' = [spc EXCEPT ![c] = "unsetting"]
    /\ inMap' = inMap \cup {TServe(c)}
    /\ UNCHANGED << dictVars, listenVars, ctxDone, activeConn, wg, shutVars, sock,
                    cmd, ret, rerr, crashed >>

\* the key serve passes to setActiveConn: the address of its own parameter
serveKey(c) == PtrConn(c)

\* lines 113-114: setActiveConn(&conn, false) ends, then the deferred wg.Done()
ServeDone(c) ==
    /\ ~crashed
    /\ spc[c] = "unsetting"
    /\ inMap' = inMap \ {TServe(c)}
    /\ \E o \in RaceOutcomes(TServe(c)) :
          /\ crashed' = (o = "crash")
          /\ activeConn' = IF o = "applied"
                           THEN setActiveConn(activeConn, serveKey(c), FALSE)
                           ELSE activeConn
          /\ IF o = "crash"
             THEN UNCHANGED << wg, spc >>
             ELSE /\ wg' = wg - 1
                  /\ spc' = [spc EXCEPT ![c] = "done"]
    /\ UNCHANGED << dictVars, listenVars, ctxDone, shutVars, sock, cmd, ret, rerr >>

(* Shutdown *)

\* a variant of the entry check that goes on whatever s.listener is
shutdownEntryAlways(l) == "cancel"

\* a variant of the entry check that also goes on when s.exit is assigned
shutdownEntryIfExit(l) == IF l = Nil /\ ~exitSet THEN "idle" ELSE "cancel"

\* lines 30-32: Shutdown returns nil at once when s.listener is nil
shutdownEntry(l) == IF l = Nil THEN "idle" ELSE "cancel"

\* lines 29-32: a call of Shutdown
ShutdownCall ==
    /\ ~crashed
    /\ sdpc = "idle"
    /\ sdpc' = shutdownEntry(listener)
    /\ sdNil' = (listener = Nil)
    /\ sdLost' = (listener = Nil /\ exitSet)
    /\ UNCHANGED << dictVars, listenVars, ctxDone, activeConn, wg, sdTodo, sdKey,
                    sdDone, connVars, inMap, crashed >>

\* a variant of the cancellation step that signals nothing
exitSkipped(done, set) == done

\* lines 33-35: if s.exit is set, s.exit() closes Done() of Listen's context
exit(done, set) == done \/ set

\* lines 33-35: s.exit()
ShutdownCancel ==
    /\ ~crashed
    /\ sdpc = "cancel"
    /\ ctxDone' = exit(ctxDone, exitSet)
    /\ sdpc' = "close"
    /\ UNCHANGED << dictVars, listenVars, activeConn, wg, sdTodo, sdKey,
                    sdDone, sdNil, sdLost, connVars, inMap, crashed >>

\* line 37: s.listener.Close(); line 39: the range loop starts
ShutdownCloseListener ==
    /\ ~crashed
    /\ sdpc = "close"
    /\ lsock' = "closed"
    /\ sdTodo' = activeConn
    /\ sdpc' = "range"
    /\ UNCHANGED << dictVars, listener, exitSet, tempDelay, lpc, lconn, acceptErr,
                    listenRet, slept, ctxDone, activeConn, wg, sdKey,
                    sdDone, sdNil, sdLost, connVars, inMap, crashed >>

\* lines 39-40: the range loop produces a key and closes its connection
ShutdownNext ==
    /\ ~crashed
    /\ sdpc = "range"
    /\ \E k \in sdTodo :
          /\ sdKey' = k
          /\ sdTodo' = sdTodo \ {k}
          /\ sock' = [sock EXCEPT ![k[2]] = "closed"]
    /\ inMap' = inMap \cup {TShutdown}
    /\ sdpc' = "delete"
    /\ UNCHANGED << dictVars, listenVars, ctxDone, activeConn, wg, sdDone, sdNil, sdLost,
                    spc, cmd, ret, rerr, crashed >>

\* line 41: setActiveConn(conn, false)
ShutdownDelete ==
    /\ ~crashed
    /\ sdpc = "delete"
    /\ inMap' = inMap \ {TShutdown}
    /\ \E o \in RaceOutcomes(TShutdown) :
          /\ crashed' = (o = "crash")
          /\ activeConn' = IF o = "applied"
                           THEN setActiveConn(activeConn, sdKey, FALSE)
                           ELSE activeConn
    /\ sdKey' = << >>
    /\ sdpc' = "range"
    /\ UNCHANGED << dictVars, listenVars, ctxDone, wg, sdTodo, sdDone, sdNil, sdLost,
                    connVars >>

\* line 44: the range loop is over, Shutdown returns
ShutdownReturn ==
    /\ ~crashed
    /\ sdpc = "range"
    /\ sdTodo = {}
    /\ sdpc' = "idle"
    /\ sdDone' = TRUE
    /\ UNCHANGED << dictVars, listenVars, ctxDone, activeConn, wg, sdTodo, sdKey,
                    sdNil, sdLost, connVars, inMap, crashed >>

----------------------------------------------------------------------------
(* The server: Listen, Shutdown from the signal handler, and the clients *)

\* the dictionary the launcher loaded before Listen
StartFile == File(MagicUtf8 \o LineKab)

\* no Add and no Search is running; the mutex is the zero value
InitLock ==
    /\ mu = "free"
    /\ apc = "idle"
    /\ afile = NoFile
    /\ arest = << >>
    /\ areads = 0
    /\ snaps = << table >>
    /\ srpc = "idle"
    /\ srKey = << >>
    /\ srFrom = 1
    /\ srOver = FALSE
    /\ srRes = << >>

InitServer ==
    /\ listener = Nil
    /\ lsock = "none"
    /\ exitSet = FALSE
    /\ ctxDone = FALSE
    /\ activeConn = {}
    /\ wg = 0
    /\ tempDelay = 0
    /\ lpc = "idle"
    /\ lconn = 0
    /\ acceptErr = "none"
    /\ listenRet = "none"
    /\ slept = << >>
    /\ sdpc = "idle"
    /\ sdTodo = {}
    /\ sdKey = << >>
    /\ sdDone = FALSE
    /\ sdNil = FALSE
    /\ sdLost = FALSE
    /\ spc = [c \in Conns |-> "none"]
    /\ sock = [c \in Conns |-> "none"]
    /\ cmd = [c \in Conns |-> << >>]
    /\ rerr = [c \in Conns |-> "none"]
    /\ ret = [c \in Conns |-> << >>]
    /\ inMap = {}
    /\ crashed = FALSE

Init ==
    /\ table = Add(NilTable, << >>, StartFile).table
    /\ addCalls = Add(NilTable, << >>, StartFile).calls
    /\ addErr = Add(NilTable, << >>, StartFile).err
    /\ nAdds = 1
    /\ InitLock
    /\ InitServer

Next ==
    \/ ListenStart
    \/ ListenBind
    \/ ListenAccept
    \/ ListenAcceptError
    \/ ListenOnError
    \/ ListenSleep
    \/ ListenReturnErr
    \/ ListenEnrol
    \/ ListenEnrolled
    \/ ListenSpawn
    \/ ListenWait
    \/ ShutdownCall
    \/ ShutdownCancel
    \/ ShutdownCloseListener
    \/ ShutdownNext
    \/ ShutdownDelete
    \/ ShutdownReturn
    \/ \E c \in Conns : ServeRead(c)
    \/ \E c \in Conns : ServeReadClosed(c)
    \/ \E c \in Conns : ServeReadError(c)
    \/ \E c \in Conns : ServeWrite(c)
    \/ \E c \in Conns : ServeWriteError(c)
    \/ \E c \in Conns : ServeClose(c)
    \/ \E c \in Conns : ServeUnset(c)
    \/ \E c \in Conns : ServeDone(c)

Spec == Init /\ [][Next]_vars

----------------------------------------------------------------------------
(* The dictionary: files are added while one connection looks keys up *)

\* Dictionary.Add(file)
DictAdd(file) ==
    /\ nAdds < MaxAdds
    /\ mu = "free"
    /\ LET r == Add(table, addCalls, file)
       IN  /\ table' = r.table
           /\ addCalls' = r.calls
           /\ addErr' = r.err
           /\ snaps' = Append(snaps, r.table)
    /\ nAdds' = nAdds + 1
    /\ UNCHANGED << mu, apc, afile, arest, areads, srpc, srKey, srFrom, srOver, srRes >>
    /\ UNCHANGED << listenVars, ctxDone, activeConn, wg, shutVars, connVars,
                    inMap, crashed >>

\* the lookup requests the client sends in the dictionary specification
LookupRequests ==
    { << "1", "k", SP >>,
      << "1", "k", LF >>,
      << "1", "k" >>,
      << "1", "k", SP, "x", LF >>,
      << "1", "k", "b", SP >>,
      << "1", SP, "k" >>,
      << "1", "k", LF, "j", SP >>,
      << "1", "z", SP >>,
      << "1" >>,
      << "1", LF, SP, "k" >> }

DictLookup == \E r \in LookupRequests : ServeRecv(1, r)

\* a Server that has accepted connection 1 and is serving it
InitDict ==
    /\ table = NilTable
    /\ addCalls = << >>
    /\ addErr = "none"
    /\ nAdds = 0
    /\ InitLock
    /\ listener = "l"
    /\ lsock = "open"
    /\ exitSet = TRUE
    /\ ctxDone = FALSE
    /\ activeConn = {PtrC(1)}
    /\ wg = 1
    /\ tempDelay = 0
    /\ lpc = "accept"
    /\ lconn = 0
    /\ acceptErr = "none"
    /\ listenRet = "none"
    /\ slept = << >>
    /\ sdpc = "idle"
    /\ sdTodo = {}
    /\ sdKey = << >>
    /\ sdDone = FALSE
    /\ sdNil = FALSE
    /\ sdLost = FALSE
    /\ spc = [c \in Conns |-> IF c = 1 THEN "read" ELSE "none"]
    /\ sock = [c \in Conns |-> IF c = 1 THEN "open" ELSE "none"]
    /\ cmd = [c \in Conns |-> << >>]
    /\ rerr = [c \in Conns |-> "none"]
    /\ ret = [c \in Conns |-> << >>]
    /\ inMap = {}
    /\ crashed = FALSE

NextDict ==
    \/ \E f \in Files : DictAdd(f)
    \/ DictLookup
    \/ ServeWrite(1)

SpecDict == InitDict /\ [][NextDict]_vars

----------------------------------------------------------------------------
(* The dictionary under concurrent use: Add runs line by line under the    *)
(* write lock while Search is called                                       *)

\* the return of Add with the error err: the deferred d.mu.Unlock() (line 26)
AddReturn(t, calls, err) ==
    /\ table' = t
    /\ addCalls' = calls
    /\ addErr' = err
    /\ nAdds' = nAdds + 1
    /\ snaps' = Append(snaps, t)
    /\ mu' = "free"
    /\ apc' = "idle"
    /\ arest' = << >>
    /\ areads' = 0
    /\ UNCHANGED afile

\* lines 25-30: Add(file) takes the write lock and makes the map if it is nil
AddLock(file) ==
    /\ apc = "idle"
    /\ nAdds < MaxAdds
    /\ mu = "free"
    /\ mu' = "w"
    /\ apc' = "open"
    /\ afile' = file
    /\ table' = IF ~table.made THEN [made |-> TRUE, entries |-> << >>] ELSE table
    /\ UNCHANGED << addCalls, addErr, nAdds, arest, areads, snaps,
                    srpc, srKey, srFrom, srOver, srRes >>
    /\ UNCHANGED << listenVars, ctxDone, activeConn, wg, shutVars, connVars,
                    inMap, crashed >>

\* lines 32-52: the file is opened, its first line read and its decoder chosen
AddOpen ==
    /\ apc = "open"
    /\ IF ~afile.exists THEN AddReturn(table, addCalls, "open")
       ELSE IF afile.ioErr = 1 THEN AddReturn(table, addCalls, "read")
       ELSE LET first == ReadString(afile.data)
            IN  IF first.err # "none" THEN AddReturn(table, addCalls, "read")
                ELSE LET m == FindStringSubmatch(first.line)
                         enc == IF Len(m) = 0 THEN EucJp ELSE m
                     IN  IF wrapEncDecoder(enc) = Nil
                         THEN AddReturn(table, addCalls, "unsupported")
                         ELSE /\ apc' = "loop"
                              /\ arest' = first.rest
                              /\ areads' = 1
                              /\ UNCHANGED << table, addCalls, addErr, nAdds,
                                              snaps, mu, afile >>
    /\ UNCHANGED << srpc, srKey, srFrom, srOver, srRes >>
    /\ UNCHANGED << listenVars, ctxDone, activeConn, wg, shutVars, connVars,
                    inMap, crashed >>

\* lines 54-95: one turn of the read loop
AddReadLine ==
    /\ apc = "loop"
    /\ IF afile.ioErr = areads + 1 THEN AddReturn(table, addCalls, "read")
       ELSE LET r == ReadString(arest)
            IN  IF r.err = "EOF" THEN AddReturn(table, addCalls, Nil)
                ELSE LET st == addLine([table |-> table, calls |-> addCalls], r.line)
                     IN  /\ table' = st.table
                         /\ addCalls' = st.calls
                         /\ arest' = r.rest
                         /\ areads' = areads + 1
                         /\ UNCHANGED << addErr, nAdds, snaps, mu, apc, afile >>
    /\ UNCHANGED << srpc, srKey, srFrom, srOver, srRes >>
    /\ UNCHANGED << listenVars, ctxDone, activeConn, wg, shutVars, connVars,
                    inMap, crashed >>

\* line 116: Search(key) is called
SearchCall(key) ==
    /\ srpc = "idle"
    /\ srpc' = "rlock"
    /\ srKey' = key
    /\ srFrom' = Len(snaps)
    /\ srOver' = (mu = "w")
    /\ UNCHANGED << table, addCalls, addErr, nAdds, mu, apc, afile, arest, areads,
                    snaps, srRes >>
    /\ UNCHANGED << listenVars, ctxDone, activeConn, wg, shutVars, connVars,
                    inMap, crashed >>

\* lines 117-129: Search gets the read lock, reads the table and returns
SearchReturn ==
    /\ srpc = "rlock"
    /\ rlockFree(mu)
    /\ srRes' = Search(table, srKey)
    /\ srpc' = "idle"
    /\ UNCHANGED << table, addCalls, addErr, nAdds, mu, apc, afile, arest, areads,
                    snaps, srKey, srFrom, srOver >>
    /\ UNCHANGED << listenVars, ctxDone, activeConn, wg, shutVars, connVars,
                    inMap, crashed >>

\* the files added and the keys looked up in this specification
LockFiles ==
    { File(MagicUtf8 \o LineKab \o LineKbac),
      File(Plain \o LineJaa \o LineKab),
      File(MagicLatin \o LineKab),
      [exists |-> TRUE, data |-> MagicUtf8 \o LineKab \o LineKbac, ioErr |-> 3],
      NoFile }

LockKeys == { << "k" >>, << "j" >> }

NextLock ==
    \/ \E f \in LockFiles : AddLock(f)
    \/ AddOpen
    \/ AddReadLine
    \/ \E k \in LockKeys : SearchCall(k)
    \/ SearchReturn

SpecLock == InitDict /\ [][NextLock]_vars

----------------------------------------------------------------------------
(* One connection: its client sends requests, its reads and writes fail,   *)
(* and Shutdown runs from the signal handler                               *)

\* the requests the client sends in the connection specification
ConnRequests ==
    { << "0" >>,
      << "1", "k", SP >>,
      << "1", "z", LF >>,
      << "2" >>,
      << "3" >>,
      << "4", "k", SP >>,
      << "9" >>,
      << "x", "1", "k", SP >>,
      << LF >> }

ConnRead == \E r \in ConnRequests : ServeRecv(1, r)

\* a Server with the start dictionary that has accepted connection 1 and is
\* serving it
InitConn ==
    /\ table = Add(NilTable, << >>, StartFile).table
    /\ addCalls = Add(NilTable, << >>, StartFile).calls
    /\ addErr = Add(NilTable, << >>, StartFile).err
    /\ nAdds = 1
    /\ InitLock
    /\ listener = "l"
    /\ lsock = "open"
    /\ exitSet = TRUE
    /\ ctxDone = FALSE
    /\ activeConn = {PtrC(1)}
    /\ wg = 1
    /\ tempDelay = 0
    /\ lpc = "accept"
    /\ lconn = 0
    /\ acceptErr = "none"
    /\ listenRet = "none"
    /\ slept = << >>
    /\ sdpc = "idle"
    /\ sdTodo = {}
    /\ sdKey = << >>
    /\ sdDone = FALSE
    /\ sdNil = FALSE
    /\ sdLost = FALSE
    /\ spc = [c \in Conns |-> IF c = 1 THEN "read" ELSE "none"]
    /\ sock = [c \in Conns |-> IF c = 1 THEN "open" ELSE "none"]
    /\ cmd = [c \in Conns |-> << >>]
    /\ rerr = [c \in Conns |-> "none"]
    /\ ret = [c \in Conns |-> << >>]
    /\ inMap = {}
    /\ crashed = FALSE

NextConn ==
    \/ ConnRead
    \/ ServeReadClosed(1)
    \/ ServeReadError(1)
    \/ ServeWrite(1)
    \/ ServeWriteError(1)
    \/ ServeClose(1)
    \/ ServeUnset(1)
    \/ ServeDone(1)
    \/ ShutdownCall
    \/ ShutdownCancel
    \/ ShutdownCloseListener
    \/ ShutdownNext
    \/ ShutdownDelete
    \/ ShutdownReturn

SpecConn == InitConn /\ [][NextConn]_vars

----------------------------------------------------------------------------
(* Clients that end their sessions: every request is "0" and no read or    *)
(* write fails; Shutdown is not called                                     *)

ServeEnd(c) == ServeRecv(c, << ClientEnd >>)

NextEnd ==
    \/ ListenStart
    \/ ListenBind
    \/ ListenAccept
    \/ ListenAcceptError
    \/ ListenOnError
    \/ ListenSleep
    \/ ListenReturnErr
    \/ ListenEnrol
    \/ ListenEnrolled
    \/ ListenSpawn
    \/ \E c \in Conns : ServeEnd(c)
    \/ \E c \in Conns : ServeClose(c)
    \/ \E c \in Conns : ServeUnset(c)
    \/ \E c \in Conns : ServeDone(c)

SpecEnd == Init /\ [][NextEnd]_vars

----------------------------------------------------------------------------
(* Listen and Shutdown with clients that send nothing but the end of their *)
(* session: every request is "0", every read error is EOF or comes from    *)
(* the socket that Shutdown closed                                         *)

ServeEof(c) == ServeReadErr(c, "eof")

NextQuit ==
    \/ ListenStart
    \/ ListenBind
    \/ ListenAccept
    \/ ListenAcceptError
    \/ ListenOnError
    \/ ListenSleep
    \/ ListenReturnErr
    \/ ListenEnrol
    \/ ListenEnrolled
    \/ ListenSpawn
    \/ ListenWait
    \/ ShutdownCall
    \/ ShutdownCancel
    \/ ShutdownCloseListener
    \/ ShutdownNext
    \/ ShutdownDelete
    \/ ShutdownReturn
    \/ \E c \in Conns : ServeEnd(c)
    \/ \E c \in Conns : ServeEof(c)
    \/ \E c \in Conns : ServeReadClosed(c)
    \/ \E c \in Conns : ServeClose(c)
    \/ \E c \in Conns : ServeUnset(c)
    \/ \E c \in Conns : ServeDone(c)

SpecQuit == Init /\ [][NextQuit]_vars

----------------------------------------------------------------------------
(* Claims about the lookup reply and the index, checked under SpecDict *)

\* the index i of the claim, 1-based: the first space of the buffer, else its
\* first LF, else one past its end
KeyEnd(b) ==
    CHOOSE i \in 1..(Len(b) + 1) :
       \/ /\ i <= Len(b)
          /\ b[i] = SP
          /\ \A j \in 1..(i-1) : b[j] # SP
       \/ /\ \A j \in 1..Len(b) : b[j] # SP
          /\ i <= Len(b)
          /\ b[i] = LF
          /\ \A j \in 1..(i-1) : b[j] # LF
       \/ /\ \A j \in 1..Len(b) : b[j] \notin {SP, LF}
          /\ i = Len(b) + 1

\* bytes [1, i) of the buffer, counted from 0
KeyOf(b) == [j \in 1..(KeyEnd(b) - 2) |-> b[j + 1]]

\* the string form of a candidate
FormOf(c) ==
    IF c.annotation = << >> THEN c.text ELSE c.text \o << ";", SP >> \o c.annotation

\* the step in which connection c reads a lookup request and builds its reply
Answers(c) == spc[c] = "read" /\ spc'[c] = "write" /\ cmd'[c][1] = "1"

\* C1: for a lookup request the key is bytes [1, i) of the buffer, i the index
\* of the first space, else of the first LF, else the length; when Search(key)
\* is not empty the reply is "1", then "/" and the string form of every
\* candidate in Search order, then "/" and LF.
C1_LookupHitReply ==
    [][\A c \in Conns :
         Answers(c) =>
           LET cs == Search(table, KeyOf(cmd'[c]))
           IN  cs # << >> =>
                 ret'[c] = << "1" >>
                           \o Concat([n \in 1..Len(cs) |-> << "/" >> \o FormOf(cs[n])])
                           \o << "/", LF >>]_vars

\* C1 witness: a hit with two candidates, the first of them annotated, on a
\* request that has bytes after the terminator
C1_Witness ==
    /\ spc[1] = "write"
    /\ cmd[1] = << "1", "k", SP, "x", LF >>
    /\ Len(Search(table, << "k" >>)) = 2
    /\ ret[1] = << "1", "/", "a", ";", SP, "x", "/", "b", "/", LF >>

\* C2: for a lookup request whose key has no candidates (key absent, or the
\* index never loaded) the reply is "4" followed by the request bytes from
\* offset 1 to the end of the read, and nothing more.
C2_LookupMissReply ==
    [][\A c \in Conns :
         Answers(c) /\ Search(table, KeyOf(cmd'[c])) = << >> =>
            ret'[c] = << "4" >> \o [j \in 1..(Len(cmd'[c]) - 1) |-> cmd'[c][j + 1]]]_vars

\* C2 witness: a miss on an index that was never loaded, for a request with a
\* terminator and bytes after it
C2_Witness ==
    /\ ~table.made
    /\ spc[1] = "write"
    /\ cmd[1] = << "1", "k", SP, "x", LF >>
    /\ ret[1] = << "4", "k", SP, "x", LF >>

\* the entry.add calls made for key K, in load order
Occurrences(K) == SelectSeq(addCalls, LAMBDA r : r.key = K)

\* the positions of Occurrences(K) that hold the first occurrence of their text
FirstSeen(K) ==
    LET occ == Occurrences(K)
    IN  {i \in 1..Len(occ) : \A j \in 1..(i-1) : occ[j].text # occ[i].text}

KeysSeen == {addCalls[i].key : i \in 1..Len(addCalls)} \cup DOMAIN table.entries

\* C3: after any sequence of Add calls, Search(K) has pairwise distinct texts,
\* its i-th element is the i-th first occurrence of a distinct text for K
\* over all loaded files in load order, with the annotation of that occurrence.
C3_DedupOrder ==
    \A K \in KeysSeen \cup {<< "z" >>} :
       LET cs  == Search(table, K)
           occ == Occurrences(K)
           F   == FirstSeen(K)
       IN  /\ \A i, j \in 1..Len(cs) : i # j => cs[i].text # cs[j].text
           /\ Len(cs) = Cardinality(F)
           /\ \A i \in F :
                 cs[Cardinality({j \in F : j <= i})] =
                    [text |-> occ[i].text, annotation |-> occ[i].annotation]

\* C3 witness: two files were loaded; the second repeats a text of the first
\* with another annotation and brings a new text, and the first pair is kept
C3_Witness ==
    /\ nAdds = 2
    /\ Len(Occurrences(<< "k" >>)) = 5
    /\ Occurrences(<< "k" >>)[1] = [key |-> << "k" >>, text |-> << "a" >>, annotation |-> << "x" >>]
    /\ Occurrences(<< "k" >>)[4] = [key |-> << "k" >>, text |-> << "a" >>, annotation |-> << "y" >>]
    /\ Len(Search(table, << "k" >>)) = 3
    /\ Search(table, << "k" >>)[1].annotation = << "x" >>

----------------------------------------------------------------------------
(* Claims about the accept loop, shutdown and the active connection set,   *)
(* checked under Spec                                                      *)

\* C4: a temporary accept error, with no shutdown signalled, does not make
\* Listen return.
C4_TemporaryErrorRetries ==
    ~(lpc = "returned" /\ listenRet = "err" /\ acceptErr = "temp")

\* the schedule of the claim: 5ms doubled on each failure, at most 1s
BackoffDelays == {5, 10, 20, 40, 80, 160, 320, 640, 1000}

\* C5: the k-th consecutive temporary accept failure sleeps min(5ms * 2^(k-1), 1s):
\* a sleep is one of the schedule, and when it is over the loop is at Accept
\* again with the delay kept, so that the next failure sleeps the doubled delay.
C5_BackoffSchedule ==
    [][lpc = "sleep" /\ lpc' # "sleep" =>
          /\ tempDelay \in BackoffDelays
          /\ slept' = Append(slept, tempDelay)
          /\ lpc' = "accept"
          /\ tempDelay' = tempDelay]_vars

\* C6: whenever Listen has returned, every serve unit it started has finished.
C6_ListenJoinsUnits ==
    lpc = "returned" => \A c \in Conns : spc[c] \in {"none", "done"}

\* a step of the server that needs no event from a client or the network:
\* every step but a connection, a request, a read or write failure on an
\* open socket, an accept failure on an open listener, and a call of Shutdown
QuietStep ==
    \/ ListenStart
    \/ ListenBind
    \/ (lsock = "closed" /\ ListenAcceptError)
    \/ ListenOnError
    \/ ListenSleep
    \/ ListenReturnErr
    \/ ListenEnrol
    \/ ListenEnrolled
    \/ ListenSpawn
    \/ ListenWait
    \/ ShutdownCancel
    \/ ShutdownCloseListener
    \/ ShutdownNext
    \/ ShutdownDelete
    \/ ShutdownReturn
    \/ \E c \in Conns : ServeReadClosed(c)
    \/ \E c \in Conns : ServeWrite(c)
    \/ \E c \in Conns : (sock[c] = "closed" /\ ServeWriteError(c))
    \/ \E c \in Conns : ServeClose(c)
    \/ \E c \in Conns : ServeUnset(c)
    \/ \E c \in Conns : ServeDone(c)

\* C7: after Shutdown on a listening server Listen returns, clients staying
\* silent: once such a Shutdown has returned, Listen has returned or the
\* server can still take a step on its own.
C7_ListenReturnsAfterShutdown ==
    (sdDone /\ sdpc = "idle" /\ ~crashed) => (lpc = "returned" \/ ENABLED QuietStep)

\* C8: when a Shutdown of the listening server and Listen have both returned,
\* the listener and every accepted socket are closed and no serve unit runs.
C8_NothingLeftAfterShutdown ==
    (sdDone /\ sdpc = "idle" /\ lpc = "returned" /\ ~crashed) =>
        /\ lsock = "closed"
        /\ \A c \in Conns : sock[c] \in {"none", "closed"}
        /\ \A c \in Conns : spc[c] \in {"none", "done"}

\* C9: no two threads are inside an access to the active connection set at
\* the same time.
C9_SetAccessExclusive == Cardinality(inMap) <= 1

\* C10: once the serve unit of a connection has finished, the entry inserted
\* for the connection at accept is not in the active connection set.
C10_FinishedNotEnrolled ==
    \A c \in Conns : spc[c] = "done" => PtrC(c) \notin activeConn

----------------------------------------------------------------------------
(* Claims about one connection's request loop, checked under SpecConn *)

\* C11: within a connection one read is one request.  A read is issued only
\* with an empty reply accumulator; the read leaves at most one reply in the
\* accumulator, the reply of the request just read and nothing else; and
\* while that reply is pending the unit does nothing but write it in full
\* (the socket is open and the loop goes back to the read) or terminate.
C11_OneRequestAtATime ==
    [][\A c \in Conns :
         /\ spc[c] = "read" => ret[c] = << >>
         /\ (spc[c] = "read" /\ spc'[c] = "write") =>
               /\ cmd'[c] # << >>
               /\ ret'[c] = dispatch(table, cmd'[c]).ret
         /\ (cmd'[c] # cmd[c] /\ cmd'[c] # << >>) => spc[c] = "read"
         /\ spc[c] = "write" =>
               /\ spc'[c] \in {"write", "read", "close"}
               /\ (spc'[c] = "write") => (cmd'[c] = cmd[c] /\ ret'[c] = ret[c])
               /\ (spc'[c] = "read") => (sock[c] = "open" /\ ret'[c] = << >>)]_vars

\* a request has been read and its reply is pending: the accumulator holds
\* the version string and nothing else, and the socket is open
C11_Witness ==
    /\ spc[1] = "write"
    /\ sock[1] = "open"
    /\ cmd[1] = << "2" >>
    /\ ret[1] = Version

\* the first byte of the request b is one of the five commands '0'..'4'
KnownCommand(b) ==
    b[1] \in {ClientEnd, ClientRequest, ClientVersion, ClientHost, ClientCompletion}

\* connection c reads a request in this step
ReadsRequest(c) ==
    /\ spc[c] = "read"
    /\ cmd'[c] # << >>
    /\ cmd'[c] # cmd[c] \/ spc'[c] # "read"

\* C12: a request whose first byte is none of '0'..'4' is ignored: nothing is
\* put in the reply accumulator and nothing is written, the socket stays open,
\* the connection stays enrolled as it was and counted in the wait group, and
\* the unit is at its next read; the request '1'..'4' read right after an
\* ignored one gets the reply the switch gives it.
C12_UnknownCommandIgnored ==
    [][\A c \in Conns :
         /\ (ReadsRequest(c) /\ ~KnownCommand(cmd'[c])) =>
               /\ spc'[c] = "read"
               /\ ret'[c] = << >>
               /\ sock'[c] = "open"
               /\ activeConn' = activeConn
               /\ wg' = wg
         /\ (ReadsRequest(c) /\ cmd[c] # << >> /\ ~KnownCommand(cmd[c])
               /\ KnownCommand(cmd'[c]) /\ cmd'[c][1] # ClientEnd) =>
               /\ spc'[c] = "write"
               /\ ret'[c] = dispatch(table, cmd'[c]).ret]_vars

\* the request "9" was read: the unit is at the next read with nothing to
\* write, the socket open and the connection enrolled
C12_Witness ==
    /\ cmd[1] = << "9" >>
    /\ spc[1] = "read"
    /\ ret[1] = << >>
    /\ sock[1] = "open"
    /\ PtrC(1) \in activeConn

----------------------------------------------------------------------------
(* Claims about the end of a session, checked under SpecEnd *)

\* connection c has left its loop and not yet finished its deferred calls
TearingDown(c) == spc[c] \in {"close", "unset", "unsetting"}

\* C13: a request "0" gets no reply and is the last the unit reads: the unit
\* leaves the loop with an empty accumulator, reads nothing more, closes the
\* socket and finishes; the rest of the server keeps running, so the process
\* is alive after every step taken while such a unit finishes.
C13_EndStopsOnlyItsUnit ==
    [][\A c \in Conns :
         /\ (ReadsRequest(c) /\ cmd'[c][1] = ClientEnd) =>
               (spc'[c] = "close" /\ ret'[c] = << >>)
         /\ (TearingDown(c) \/ spc[c] = "done") =>
               (cmd'[c] = << >> \/ cmd'[c] = cmd[c]) /\ ret'[c] = << >>
         /\ (spc[c] = "close" /\ spc'[c] # "close") => sock'[c] = "closed"
         /\ TearingDown(c) => ~crashed']_vars

----------------------------------------------------------------------------
(* Claims about Listen and Shutdown, checked under SpecQuit *)

\* C14: while no listener is installed, a step that is not a step of Listen
\* (no connection exists yet, so it is a call of Shutdown) is a no-op: the
\* call is over at once, it signals no cancellation, no socket is closed,
\* and the Active Connection Set and the rest of the server are unchanged;
\* this holds for every such call, however many were made before.
C14_ShutdownWithoutListener ==
    [][(listener = Nil /\ lpc' = lpc) =>
          /\ sdpc = "idle" /\ sdpc' = "idle"
          /\ UNCHANGED << dictVars, listenVars, ctxDone, activeConn, wg, sdTodo,
                          sdKey, sdDone, connVars, inMap, crashed >>]_vars

\* Shutdown was called after Listen had stored its cancel function and
\* before it installed the listener, and returned: nothing is cancelled
C14_Witness ==
    /\ sdNil
    /\ sdpc = "idle"
    /\ listener = Nil
    /\ exitSet
    /\ lpc = "bind"
    /\ ~ctxDone
    /\ lsock = "none"

\* C15: a failure on one connection ends only that connection's unit.  As
\* long as Shutdown has not been called, a step of the unit of connection c
\* leaves every other connection, the accept loop and the dictionary as they
\* were, and the process is alive after every step taken while a unit that
\* left its loop (fatal read error, write failure, EOF, client end) runs its
\* deferred calls.
C15_FailureStopsOnlyItsUnit ==
    [][(sdpc = "idle" /\ ~sdDone) =>
          \A c \in Conns :
             /\ (spc[c] # "none" /\ spc'[c] # spc[c]) =>
                   /\ \A d \in Conns \ {c} :
                         /\ spc'[d] = spc[d]
                         /\ sock'[d] = sock[d]
                         /\ cmd'[d] = cmd[d]
                         /\ ret'[d] = ret[d]
                   /\ UNCHANGED << dictVars, listenVars >>
             /\ TearingDown(c) => ~crashed']_vars

----------------------------------------------------------------------------
(* Claims about the dictionary under concurrent use, checked under SpecLock *)

\* C16: a Search never returns a list that reflects part of a file.  What a
\* Search returns is what Search gives on the table as it was at
\* construction or at the return of some Add, and on none older than the
\* table as it was when the Search was called or, if an Add was running
\* then, when that Add began: a Search concurrent with an Add sees the table
\* from before that Add or from after its return, and a Search called after
\* an Add returned sees all of that Add's insertions.  The table an Add
\* leaves at its return is the table its whole file gives.
C16_SearchSeesWholeAdds ==
    [][/\ (srpc = "rlock" /\ srpc' = "idle") =>
             \E i \in srFrom..Len(snaps) : srRes' = Search(snaps[i], srKey)
       /\ (apc # "idle" /\ apc' = "idle") =>
             LET r == Add(snaps[Len(snaps)], << >>, afile)
             IN  /\ table' = r.table
                 /\ addErr' = r.err
                 /\ snaps' = Append(snaps, r.table)]_vars

\* a Search of "k" was called while an Add that changes the list of "k" was
\* running; it has returned the list from after that Add, which differs from
\* the list before it
C16_Witness ==
    /\ srpc = "idle"
    /\ srOver
    /\ srKey = << "k" >>
    /\ srFrom < Len(snaps)
    /\ srRes = Search(snaps[srFrom + 1], srKey)
    /\ srRes # Search(snaps[srFrom], srKey)
    /\ Len(srRes) = 3

----------------------------------------------------------------------------
(* Claims about the first line of a dictionary file, checked under SpecDict *)

\* the first line of file f, when it can be read
FirstLine(f) == ReadString(f.data).line

\* file f can be opened and its first line read
FirstLineRead(f) == f.exists /\ f.ioErr # 1 /\ ReadString(f.data).err = "none"

\* the first line of f is a magic comment that names an encoding other than
\* the four the dictionary reads
NamesOtherEncoding(f) ==
    /\ FirstLineRead(f)
    /\ Len(FindStringSubmatch(FirstLine(f))) > 0
    /\ FindStringSubmatch(FirstLine(f)) \notin {EucJp, EucJis2004, Sjis, Utf8}

\* C17: on every index the specification reaches, Add of a file whose magic
\* comment names an encoding other than euc-jp, euc-jis-2004, sjis and utf-8
\* returns the unsupported-encoding error, and Search gives for every key
\* what it gave before the call.
C17_UnsupportedEncodingNoChange ==
    \A f \in Files :
       NamesOtherEncoding(f) =>
          LET r == Add(table, addCalls, f)
          IN  /\ r.err = "unsupported"
              /\ \A K \in KeysSeen \cup DOMAIN r.table.entries \cup {<< "z" >>} :
                    Search(r.table, K) = Search(table, K)

\* the second Add named latin-1 and failed; the index still answers "k" with
\* the candidates of the first file
C17_Witness ==
    /\ nAdds = 2
    /\ addErr = "unsupported"
    /\ \E f \in Files : NamesOtherEncoding(f) /\ table = Add(snaps[2], << >>, f).table
    /\ Len(Search(table, << "k" >>)) > 0
    /\ Search(table, << "k" >>) = Search(snaps[2], << "k" >>)

----------------------------------------------------------------------------
(* Claims about the end of Listen and of a unit, checked under SpecQuit and SpecConn *)

\* C18: Shutdown signals cancellation before it closes the listener.  The
\* listening socket is never closed with cancellation unsignalled, so an
\* Accept that fails because the listener was closed is seen with
\* cancellation set: Listen then leaves the loop for wg.Wait() and what it
\* returns is nil, never that error.
C18_CancelBeforeClose ==
    /\ (lsock = "closed") => ctxDone
    /\ (acceptErr = "closed") =>
          /\ ctxDone
          /\ lpc \in {"failed", "wait", "returned"}
          /\ (lpc = "returned") => (listenRet = "nil")
    /\ (sdpc \in {"close", "range", "delete"}) => ctxDone

\* Shutdown has returned, Accept failed on the closed listener and Listen
\* returned nil
C18_Witness ==
    /\ sdDone
    /\ acceptErr = "closed"
    /\ lpc = "returned"
    /\ listenRet = "nil"

\* a Read of connection c fails in this step
ReadFails(c) ==
    /\ spc[c] = "read"
    /\ rerr'[c] # "none"
    /\ rerr'[c] # rerr[c] \/ spc'[c] # "read"

\* C19: what a unit does with a read error.  With shutdown signalled the
\* unit leaves its loop whatever the error is; otherwise a temporary error
\* sends it back to the read with its socket open, and EOF and every other
\* error make it leave the loop.  A unit that left its loop goes on (while
\* the process runs) to close its socket and then to finish; finishing
\* takes one from the wait group, nothing else does, and a finished unit
\* takes no further step.
C19_ReadErrorDispositions ==
    [][\A c \in Conns :
         /\ ReadFails(c) =>
               /\ ctxDone => spc'[c] = "close"
               /\ (~ctxDone /\ rerr'[c] = "temp") =>
                     (spc'[c] = "read" /\ sock'[c] = "open")
               /\ (~ctxDone /\ rerr'[c] = "eof") => spc'[c] = "close"
               /\ (~ctxDone /\ rerr'[c] \in {"fatal", "closed"}) => spc'[c] = "close"
         /\ (TearingDown(c) /\ ~crashed) =>
               ENABLED (ServeClose(c) \/ ServeUnset(c) \/ ServeDone(c))
         /\ (spc[c] = "close" /\ spc'[c] # "close") =>
               (spc'[c] = "unset" /\ sock'[c] = "closed")
         /\ (spc[c] = "unset" /\ spc'[c] # "unset") => spc'[c] = "unsetting"
         /\ (spc[c] = "unsetting" /\ spc'[c] # "unsetting") =>
               (spc'[c] = "done" /\ sock[c] = "closed" /\ wg' = wg - 1)
         /\ (spc[c] = "done") => (spc'[c] = "done" /\ wg' = wg)
         /\ (wg' # wg) => (\E d \in Conns : spc[d] = "unsetting" /\ spc'[d] = "done")]_vars

\* shutdown was signalled and the socket still open when a Read failed with
\* a temporary error: the unit has left its loop
C19_Witness ==
    /\ ctxDone
    /\ rerr[1] = "temp"
    /\ sock[1] = "open"
    /\ spc[1] = "close"

\* the first line of f can be read and holds no magic comment
NoMagicComment(f) ==
    FirstLineRead(f) /\ Len(FindStringSubmatch(FirstLine(f))) = 0

\* file f with its first line replaced by a comment line
CommentFirst(f) == [f EXCEPT !.data = Plain \o ReadString(f.data).rest]

\* the candidate texts Search gives for key K on table t
Texts(t, K) == {Search(t, K)[i].text : i \in 1..Len(Search(t, K))}

\* C20: the first line of a file is read for the encoding and never
\* indexed.  On every index the specification reaches, Add of a file without
\* magic comment gives the result, the table and the entry.add calls that
\* Add gives when the first line is a comment: what Search returns for the
\* key of a first line "KEY SP CAND/..." holds a candidate of that line only
\* if the index had it before or a later line of the file has it.
C20_FirstLineNotIndexed ==
    \A f \in Files :
       NoMagicComment(f) =>
          /\ Add(table, addCalls, f) = Add(table, addCalls, CommentFirst(f))
          /\ (f = File(LineKc \o LineKab)) =>
                Texts(Add(table, addCalls, f).table, << "k" >>)
                   = Texts(table, << "k" >>) \cup {<< "a" >>, << "b" >>}

\* the file "k c/", "k a;x/b/" was added to the empty index without error:
\* Search("k") gives a and b and not c
C20_Witness ==
    /\ nAdds = 1
    /\ addErr = Nil
    /\ table = Add(NilTable, << >>, File(LineKc \o LineKab)).table
    /\ Texts(table, << "k" >>) = {<< "a" >>, << "b" >>}

----------------------------------------------------------------------------
(* Claims about the last line of a dictionary file, checked under SpecDict *)

\* the position of the last LF of s, 0 when s has none
LastLF(s) ==
    IF \A i \in 1..Len(s) : s[i] # LF THEN 0
    ELSE CHOOSE i \in 1..Len(s) : s[i] = LF /\ \A j \in (i+1)..Len(s) : s[j] # LF

\* file f cut after its last LF
WithoutTail(f) == [f EXCEPT !.data = SubSeq(f.data, 1, LastLF(f.data))]

\* C21: Add indexes only lines that end in LF.  On every index the
\* specification reaches and for every file that can be opened and read: if
\* the file holds no LF (the empty file too), Add returns the read error,
\* makes no entry.add call and Search gives for every key what it gave
\* before; if it holds one, the bytes after its last LF count for nothing:
\* Add gives the table, the calls and the result it gives for the file cut
\* after its last LF, so a last entry line without LF adds no candidate and
\* does not make Add fail.
C21_OnlyTerminatedLines ==
    \A f \in Files :
       (f.exists /\ f.ioErr = 0) =>
          LET r == Add(table, addCalls, f)
          IN  IF LastLF(f.data) = 0
              THEN /\ r.err = "read"
                   /\ r.calls = addCalls
                   /\ \A K \in KeysSeen \cup DOMAIN r.table.entries \cup {<< "z" >>} :
                         Search(r.table, K) = Search(table, K)
              ELSE /\ r = Add(table, addCalls, WithoutTail(f))
                   /\ (f.data[Len(f.data)] # LF /\ ~NamesOtherEncoding(f)) =>
                         r.err = Nil

\* the file that ends in "k c/" without LF was added to the empty index
\* without error and left "k" without candidates; then the file "k c/"
\* without any LF was added: Add returned the read error and "k" still has
\* no candidates
C21_Witness ==
    /\ nAdds = 2
    /\ addErr = "read"
    /\ snaps[2] = Add(NilTable, << >>,
                      File(MagicUtf8 \o LineComment \o LineNoSpace \o LineJaa \o TailKc)).table
    /\ Add(NilTable, << >>,
           File(MagicUtf8 \o LineComment \o LineNoSpace \o LineJaa \o TailKc)).err = Nil
    /\ table = Add(snaps[2], << >>, File(TailKc)).table
    /\ Texts(table, << "k" >>) = {}
    /\ Texts(table, << "j" >>) = {<< "a" >>}

----------------------------------------------------------------------------
(* Claims about a Shutdown during the start of Listen, checked under SpecQuit *)

\* C22: a Shutdown that runs after Listen assigned s.exit and before it
\* assigned s.listener is lost.  The call is over at once and changes no
\* variable of the server: nothing is cancelled, nothing is closed, nothing
\* tells the states before and after it apart.  From then on, until a
\* Shutdown call that finds the listener, no Shutdown is in progress or
\* done, cancellation is not signalled and the listening socket is not
\* closed while Listen runs, and Listen at its Accept takes the next
\* connection the network offers.
C22_ShutdownBeforeListenerLost ==
    [][/\ (lpc = "bind" /\ exitSet /\ listener = Nil /\ lpc' = lpc) =>
             /\ sdpc = "idle" /\ sdpc' = "idle"
             /\ ~ctxDone'
             /\ UNCHANGED << dictVars, listenVars, ctxDone, activeConn, wg, sdTodo,
                             sdKey, sdDone, connVars, inMap, crashed >>
       /\ sdLost =>
             /\ sdpc = "idle" /\ ~sdDone
             /\ (lpc # "returned") => (~ctxDone /\ lsock # "closed")
             /\ (lpc = "accept" /\ ~crashed /\ \E n \in Conns : sock[n] = "none") =>
                   ENABLED ListenAccept
       /\ (sdLost /\ ~sdLost') => (listener # Nil /\ sdpc' = "cancel")]_vars

\* Shutdown was called between the two assignments and returned; Listen has
\* since installed its listener, accepted connection 1 and started its unit,
\* and is back at Accept with nothing cancelled
C22_Witness ==
    /\ sdLost
    /\ lpc = "accept"
    /\ lsock = "open"
    /\ ~ctxDone
    /\ spc[1] = "read"
    /\ sock[1] = "open"
    /\ sdpc = "idle"

====
